---- MODULE Spec2Model ----
(***************************************************************************)
(* Token session of the QuickBooks wrapper (QuickbooksService): the four   *)
(* session fields, setAccessToken / getTokenStatus / isTokenExpired, the   *)
(* code exchange and the refresh against the vendor's token endpoint, and  *)
(* makeRequest, the wrapper that every resource operation goes through     *)
(* (ensureValidToken, the bearer request, one retry after a 401).          *)
(* On top of makeRequest come the resource operations: the realm check,    *)
(* executeQuery with its count request, and the by-id lookups.             *)
(*                                                                         *)
(* A request handler is one incoming request being served.  Node runs a    *)
(* handler without interruption between two awaits, so every action below  *)
(* is the code between two awaits of one handler; handlers interleave at   *)
(* the awaits and share the one session.                                   *)
(*                                                                         *)
(* Absent values (null, undefined, '') are the empty string "": the code   *)
(* only ever tests them for truthiness.  An absent Date is NoDate.  Time   *)
(* is in milliseconds, as Date.now().                                      *)
(***************************************************************************)
EXTENDS Integers, FiniteSets, Sequences, TLC

VARIABLES
    accessToken,      \* this.accessToken
    refreshToken,     \* this.refreshToken
    realmId,          \* this.realmId
    tokenExpiresAt,   \* this.tokenExpiresAt (ms) or NoDate
    now,              \* Date.now()
    ticks,            \* how often the clock has advanced (bounds the model)
    pc,               \* per handler: where it is suspended
    isRetry,          \* per handler: the isRetry argument of the running makeRequest
    firstErr,         \* per handler: `error` caught by the first attempt of makeRequest
    secondErr,        \* per handler: the error the retried request failed with
    rtArg,            \* per handler: the refreshToken argument of the refresh in flight
    tokResp,          \* per handler: the token response held across an await
    issuedTok,        \* per handler: the access token its last refresh returned
    override,         \* per handler: exchangeCodeDto.realmId
    sentTok,          \* per handler: bearer token of the last resource request sent
    apiReqs,          \* per handler: resource requests sent by this invocation
    tokReqs,          \* per handler: token endpoint requests sent by this invocation
    tokFail,          \* per handler: how the token endpoint failed, and for which caller
    result,           \* per handler: what the invocation returned or raised
    statusOut,        \* per handler: what getTokenStatus returned to it
    op,               \* per handler: the resource operation it runs
    phase,            \* per handler: which part of the operation it is in
    items,            \* per handler: the rows of executeQuery's first request
    opResult,         \* per handler: what the operation returned or raised
    retryTok,         \* per handler: the access token the refresh of its 401 branch returned
    issued,           \* when the stored access token was set, and the expiresIn given with it
    itemData,         \* per handler: the item that createItem was called with
    itemCall          \* per handler: what createItem has looked up, resolved and written

session == <<accessToken, refreshToken, realmId, tokenExpiresAt>>
locals  == <<pc, isRetry, firstErr, secondErr, rtArg, tokResp, issuedTok, override,
             sentTok, apiReqs, tokReqs, tokFail, result>>
vars    == <<accessToken, refreshToken, realmId, tokenExpiresAt, now, ticks,
             pc, isRetry, firstErr, secondErr, rtArg, tokResp, issuedTok, override,
             sentTok, apiReqs, tokReqs, tokFail, result,
             statusOut, op, phase, items, opResult, retryTok, issued,
             itemData, itemCall>>
opvars  == <<statusOut, op, phase, items, opResult>>
hist    == <<retryTok, issued>>
itemvars == <<itemData, itemCall>>

---------------------------------------------------------------------------
(* Bounds and input sets *)

MaxTicks == 1

Handlers == {"A", "B"}

NoDate == -1

FiveMinutes == 5 * 60 * 1000

\* The clock advances by a second, or by a millisecond less.
TickSteps == {999, 1000}

\* Access tokens the vendor issues, and one a caller supplies.
VendorAccessTokens == {"a1", "a2"}
CallerAccessTokens == {"u1"}

\* Refresh tokens: "r1" is configured or supplied by a caller, "r2" is what the
\* vendor rotates to.
CallerRefreshTokens == {"r1"}
VendorRefreshTokens == {"r2"}

\* Realm ids: "c1" is what the vendor reports, "c2" is configured or supplied.
VendorRealm == "c1"
CallerRealms == {"c2"}

\* expires_in of a token response, in seconds: 300 is exactly the five minute
\* margin, 301 one second more.
ExpiresInValues == {300, 301}

\* An omitted (undefined) number argument.
Omitted == -1

\* expiresIn arguments of setAccessToken, in seconds.
ExpiresInArgs == {Omitted, 0, 300, 301}

\* Failures of a resource request: status 0 is a failure without a response
\* (network error, timeout), code is Fault.Error[0].code.
NoErr == [status |-> -1, code |-> ""]
ApiErrors == { [status |-> 401, code |-> ""],
               [status |-> 400, code |-> "3200"],
               [status |-> 500, code |-> ""],
               [status |-> 0,   code |-> ""] }

\* Failures of the token endpoint: its HTTP status, 0 without a response.
TokenFailures == {400, 401, 500, 0}
NoFail == [at |-> "", status |-> -1]

NoResp == [access_token |-> "", refresh_token |-> "", expires_in |-> 0, realmId |-> ""]
NoResult == [kind |-> "none", status |-> 0, code |-> ""]
NoStatus == [isAuthenticated |-> FALSE, realmId |-> "", tokenExpiresAt |-> NoDate,
             hasRefreshToken |-> FALSE, isExpired |-> FALSE]
NoOpResult == [kind |-> "none", status |-> 0, code |-> "", totalCount |-> 0,
               items |-> <<>>]

\* Token responses of the vendor.  A code exchange answers with every field; a
\* refresh may omit the refresh token (reuse) and carries no realm id unless the
\* vendor adds one.
ExchangeResponses ==
    { [access_token |-> a, refresh_token |-> r, expires_in |-> e, realmId |-> VendorRealm] :
        a \in VendorAccessTokens, r \in VendorRefreshTokens, e \in ExpiresInValues }

RefreshResponses ==
    { [access_token |-> a, refresh_token |-> r, expires_in |-> e, realmId |-> c] :
        a \in VendorAccessTokens, r \in VendorRefreshTokens \cup {""},
        e \in ExpiresInValues, c \in {"", VendorRealm} }

---------------------------------------------------------------------------
(* Pure parts of the service *)

\* if (n) of JavaScript on an optional number: undefined and 0 are falsy
Truthy(n) == n # Omitted /\ n # 0

\* a || b of JavaScript on strings
Or(a, b) == IF a # "" THEN a ELSE b

\* Mutant of SetAccessToken: an omitted refresh token clears the stored one.
SetAccessTokenClearing(s, at, realm, rt, expiresIn, t) ==
    << at,
       rt,
       realm,
       IF Truthy(expiresIn) THEN t + expiresIn * 1000 ELSE s[4] >>

\* setAccessToken: the session after setAccessToken(at, realm, rt, expiresIn) at
\* time t, as <<accessToken, refreshToken, realmId, tokenExpiresAt>>.
SetAccessToken(s, at, realm, rt, expiresIn, t) ==
    << at,
       IF rt # "" THEN rt ELSE s[2],
       realm,
       IF Truthy(expiresIn) THEN t + expiresIn * 1000 ELSE s[4] >>

\* Mutant of GetTokenStatus: isAuthenticated looks at the access token only.
GetTokenStatusTokenOnly ==
    [ isAuthenticated |-> accessToken # "",
      realmId         |-> realmId,
      tokenExpiresAt  |-> tokenExpiresAt,
      hasRefreshToken |-> refreshToken # "" ]

\* getTokenStatus
GetTokenStatus ==
    [ isAuthenticated |-> accessToken # "" /\ realmId # "",
      realmId         |-> realmId,
      tokenExpiresAt  |-> tokenExpiresAt,
      hasRefreshToken |-> refreshToken # "" ]

\* Mutant of IsTokenExpired: a missing expiry counts as expired (fails closed).
IsTokenExpiredFailClosed ==
    IF accessToken = "" /\ refreshToken # "" THEN TRUE
    ELSE IF tokenExpiresAt = NoDate THEN TRUE
    ELSE tokenExpiresAt <= now + FiveMinutes

\* Mutant of IsTokenExpired: the margin is compared with < instead of <=.
IsTokenExpiredStrict ==
    IF accessToken = "" /\ refreshToken # "" THEN TRUE
    ELSE IF tokenExpiresAt = NoDate THEN FALSE
    ELSE tokenExpiresAt < now + FiveMinutes

\* isTokenExpired
IsTokenExpired ==
    IF accessToken = "" /\ refreshToken # "" THEN TRUE
    ELSE IF tokenExpiresAt = NoDate THEN FALSE
    ELSE tokenExpiresAt <= now + FiveMinutes

\* makeRequest: isAuthError
\* Mutant of IsAuthError: a 500 counts as an authentication failure too.
IsAuthErrorOrServer(err) == err.status \in {401, 500} \/ err.code = "3200"

IsAuthError(err) == err.status = 401 \/ err.code = "3200"

\* Mutant of ShouldRetry: the branch forgets that the call is already a retry.
ShouldRetryAgain(err, retry) == IsAuthError(err) /\ refreshToken # ""

\* makeRequest: the condition of the refresh-and-retry branch
ShouldRetry(err, retry) == IsAuthError(err) /\ ~retry /\ refreshToken # ""

\* QuickBooksHelper.handleApiError: the HttpException it throws
HandleApiError(err) ==
    [ kind   |-> "api",
      status |-> IF err.status # 0 THEN err.status ELSE 400,
      code   |-> err.code ]

\* refreshAccessToken: the HttpException of its catch block
RefreshFailed(status) == [kind |-> "refresh_failed", status |-> 400, code |-> ""]

\* ensureValidToken: what its catch block throws for the error refreshAccessToken threw
EnsureCatch(e) ==
    IF e.status = 401 \/ e.status = 400
    THEN [kind |-> "reauth", status |-> 401, code |-> ""]
    ELSE e

\* exchangeCodeForToken: the HttpException of its catch block
ExchangeFailed == [kind |-> "exchange_failed", status |-> 400, code |-> ""]

\* Mutant of RefreshResult: no fallback to the stored realm id.
RefreshResultNoRealm(resp, arg) ==
    [ access_token  |-> resp.access_token,
      refresh_token |-> Or(resp.refresh_token, arg),
      expires_in    |-> resp.expires_in,
      realmId       |-> resp.realmId ]

\* Mutant of RefreshResult: no fallback to the refresh token that was sent.
RefreshResultNoFallback(resp, arg) ==
    [ access_token  |-> resp.access_token,
      refresh_token |-> resp.refresh_token,
      expires_in    |-> resp.expires_in,
      realmId       |-> Or(resp.realmId, realmId) ]

\* refreshAccessToken: newRefreshToken and the realm id of the token it returns
RefreshResult(resp, arg) ==
    [ access_token  |-> resp.access_token,
      refresh_token |-> Or(resp.refresh_token, arg),
      expires_in    |-> resp.expires_in,
      realmId       |-> Or(resp.realmId, realmId) ]

---------------------------------------------------------------------------
(* State *)

\* No createItem call is running.
NoItemData == [Type |-> "", Income |-> "missing", Expense |-> "missing", Asset |-> "missing"]
NoItemCall == [looked |-> FALSE, ref |-> 0, resolved |-> "", caught |-> NoResult,
               accountWrites |-> 0, itemWrites |-> 0]

Init ==
    /\ accessToken = ""
    /\ refreshToken \in {""} \cup CallerRefreshTokens      \* QUICKBOOKS_REFRESH_TOKEN
    /\ realmId \in {""} \cup CallerRealms                  \* QUICKBOOKS_REALM_ID
    /\ tokenExpiresAt = NoDate
    /\ now = 0
    /\ ticks = 0
    /\ pc = [p \in Handlers |-> "idle"]
    /\ isRetry = [p \in Handlers |-> FALSE]
    /\ firstErr = [p \in Handlers |-> NoErr]
    /\ secondErr = [p \in Handlers |-> NoErr]
    /\ rtArg = [p \in Handlers |-> ""]
    /\ tokResp = [p \in Handlers |-> NoResp]
    /\ issuedTok = [p \in Handlers |-> ""]
    /\ override = [p \in Handlers |-> ""]
    /\ sentTok = [p \in Handlers |-> ""]
    /\ apiReqs = [p \in Handlers |-> 0]
    /\ tokReqs = [p \in Handlers |-> 0]
    /\ tokFail = [p \in Handlers |-> NoFail]
    /\ result = [p \in Handlers |-> NoResult]
    /\ statusOut = [p \in Handlers |-> NoStatus]
    /\ op = [p \in Handlers |-> ""]
    /\ phase = [p \in Handlers |-> ""]
    /\ items = [p \in Handlers |-> <<>>]
    /\ opResult = [p \in Handlers |-> NoOpResult]
    /\ retryTok = [p \in Handlers |-> ""]
    /\ issued = [at |-> 0, expiresIn |-> Omitted]
    /\ itemData = [p \in Handlers |-> NoItemData]
    /\ itemCall = [p \in Handlers |-> NoItemCall]

\* setAccessToken is called now with expiresIn e.
Stamp(e) == issued' = [at |-> now, expiresIn |-> e]

\* The session fields become s.
Store(s) ==
    /\ accessToken' = s[1]
    /\ refreshToken' = s[2]
    /\ realmId' = s[3]
    /\ tokenExpiresAt' = s[4]

Tick(d) ==
    /\ ticks < MaxTicks
    /\ now' = now + d
    /\ ticks' = ticks + 1
    /\ UNCHANGED <<session, locals>>
    /\ UNCHANGED <<opvars, hist, itemvars>>

---------------------------------------------------------------------------
(* makeRequest *)

Ok == [kind |-> "ok", status |-> 200, code |-> ""]

\* The handler ends, returning or raising r.
Finish(p, r) ==
    /\ pc' = [pc EXCEPT ![p] = "done"]
    /\ result' = [result EXCEPT ![p] = r]

\* Mutant of NeedsRefresh: a single-flight guard, no refresh is posted while
\* another handler awaits one.
NeedsRefreshSingleFlight ==
    /\ refreshToken # ""
    /\ IsTokenExpired
    /\ \A q \in DOMAIN pc : pc[q] # "ev_wait"

\* Mutant of NeedsRefresh: the early return for a missing refresh token is gone.
NeedsRefreshWithoutToken == IsTokenExpired

\* ensureValidToken up to its await: whether it posts a refresh.
NeedsRefresh == refreshToken # "" /\ IsTokenExpired

\* makeRequest up to its first await: ensureValidToken either posts a refresh of
\* the stored refresh token or returns at once.
EnsureValidToken(p) ==
    IF NeedsRefresh
    THEN /\ pc' = [pc EXCEPT ![p] = "ev_wait"]
         /\ rtArg' = [rtArg EXCEPT ![p] = refreshToken]
         /\ tokReqs' = [tokReqs EXCEPT ![p] = @ + 1]
    ELSE /\ pc' = [pc EXCEPT ![p] = "send"]
         /\ UNCHANGED <<rtArg, tokReqs>>

\* A resource operation calls makeRequest(method, url, data, config).
Call(p) ==
    /\ pc[p] = "idle"
    /\ EnsureValidToken(p)
    /\ UNCHANGED <<session, now, ticks, isRetry, firstErr, secondErr, tokResp,
                   issuedTok, override, sentTok, apiReqs, tokFail, result>>
    /\ UNCHANGED <<opvars, hist, itemvars>>

\* refreshAccessToken after its await, the vendor having answered resp:
\* setAccessToken with the new tokens; the caller gets RefreshResult.
RefreshStore(p, resp) ==
    LET r == RefreshResult(resp, rtArg[p])
    IN  /\ Store(SetAccessToken(session, r.access_token, r.realmId,
                                r.refresh_token, r.expires_in, now))
        /\ issuedTok' = [issuedTok EXCEPT ![p] = r.access_token]
        /\ Stamp(r.expires_in)

\* ensureValidToken: the refresh it awaits succeeds.
EnsureRefreshOk(p, resp) ==
    /\ pc[p] = "ev_wait"
    /\ RefreshStore(p, resp)
    /\ tokResp' = [tokResp EXCEPT ![p] = RefreshResult(resp, rtArg[p])]
    /\ pc' = [pc EXCEPT ![p] = "ev_set"]
    /\ UNCHANGED <<now, ticks, isRetry, firstErr, secondErr, rtArg, override,
                   sentTok, apiReqs, tokReqs, tokFail, result>>
    /\ UNCHANGED <<opvars, retryTok>>
    /\ UNCHANGED itemvars

\* What the caller of the outermost makeRequest sees when ensureValidToken of
\* the running makeRequest throws e: the retried call runs inside the try block
\* of the first attempt, whose catch (refreshError) hands the first attempt's
\* error to handleApiError.
Surface(p, e) == IF isRetry[p] THEN HandleApiError(firstErr[p]) ELSE e

\* ensureValidToken: the refresh it awaits fails; refreshAccessToken throws its
\* HttpException and the catch block of ensureValidToken decides what to raise.
EnsureRefreshFail(p, f) ==
    /\ pc[p] = "ev_wait"
    /\ tokFail' = [tokFail EXCEPT ![p] = [at |-> "ensure", status |-> f]]
    /\ Finish(p, Surface(p, EnsureCatch(RefreshFailed(f))))
    /\ UNCHANGED <<session, now, ticks, isRetry, firstErr, secondErr, rtArg,
                   tokResp, issuedTok, override, sentTok, apiReqs, tokReqs>>
    /\ UNCHANGED <<opvars, hist, itemvars>>

\* ensureValidToken after refreshAccessToken returned: setAccessToken with the
\* token response.
EnsureSet(p) ==
    /\ pc[p] = "ev_set"
    /\ Store(SetAccessToken(session, tokResp[p].access_token, tokResp[p].realmId,
                            tokResp[p].refresh_token, tokResp[p].expires_in, now))
    /\ tokResp' = [tokResp EXCEPT ![p] = NoResp]
    /\ pc' = [pc EXCEPT ![p] = "send"]
    /\ UNCHANGED <<now, ticks, isRetry, firstErr, secondErr, rtArg, issuedTok,
                   override, sentTok, apiReqs, tokReqs, tokFail, result>>
    /\ Stamp(tokResp[p].expires_in)
    /\ UNCHANGED <<opvars, retryTok>>
    /\ UNCHANGED itemvars

\* The Bearer token of the Authorization header of the incoming request that
\* handler p serves.
RequestBearer == [A |-> "u1", B |-> "u2"]

\* Mutant of BearerToken: an upstream request carries the Bearer token of the
\* incoming request it is made for.
BearerTokenOfRequest(p) == RequestBearer[p]

\* Mutant of BearerToken: the Authorization header is fixed when the axios
\* instance is created, where the session holds no access token yet.
BearerTokenAtCreate(p) == ""

\* The request interceptor of the axios instance: the bearer token of a request
\* is the session's access token when the request is sent.
BearerToken(p) == accessToken

\* makeRequest: axiosInstance.get / post.
Send(p) ==
    /\ pc[p] = "send"
    /\ sentTok' = [sentTok EXCEPT ![p] = BearerToken(p)]
    /\ apiReqs' = [apiReqs EXCEPT ![p] = @ + 1]
    /\ pc' = [pc EXCEPT ![p] = "api_wait"]
    /\ UNCHANGED <<session, now, ticks, isRetry, firstErr, secondErr, rtArg,
                   tokResp, issuedTok, override, tokReqs, tokFail, result>>
    /\ UNCHANGED <<opvars, hist, itemvars>>

\* makeRequest: the resource request succeeds.
ApiOk(p) ==
    /\ pc[p] = "api_wait"
    /\ Finish(p, Ok)
    /\ UNCHANGED <<session, now, ticks, isRetry, firstErr, secondErr, rtArg,
                   tokResp, issuedTok, override, sentTok, apiReqs, tokReqs, tokFail>>
    /\ UNCHANGED <<opvars, hist, itemvars>>

\* makeRequest: what its catch block raises for the error err of its own
\* request when it does not retry.  A retried call raises into catch
\* (refreshError) of the first attempt, which gives handleApiError the first
\* attempt's error.
Raise(p, err) ==
    IF isRetry[p] THEN HandleApiError(firstErr[p]) ELSE HandleApiError(err)

\* makeRequest: the resource request fails with err; the catch block either
\* posts a refresh, to retry after it, or hands err to handleApiError.
ApiFail(p, err) ==
    /\ pc[p] = "api_wait"
    /\ IF isRetry[p]
       THEN secondErr' = [secondErr EXCEPT ![p] = err] /\ UNCHANGED firstErr
       ELSE firstErr' = [firstErr EXCEPT ![p] = err] /\ UNCHANGED secondErr
    /\ IF ShouldRetry(err, isRetry[p])
       THEN /\ pc' = [pc EXCEPT ![p] = "rt_wait"]
            /\ rtArg' = [rtArg EXCEPT ![p] = refreshToken]
            /\ tokReqs' = [tokReqs EXCEPT ![p] = @ + 1]
            /\ UNCHANGED result
       ELSE /\ Finish(p, Raise(p, err))
            /\ UNCHANGED <<rtArg, tokReqs>>
    /\ UNCHANGED <<session, now, ticks, isRetry, tokResp, issuedTok, override,
                   sentTok, apiReqs, tokFail>>
    /\ UNCHANGED <<opvars, hist, itemvars>>

\* makeRequest: the refresh of the 401 branch succeeds; the request is retried.
RetryRefreshOk(p, resp) ==
    /\ pc[p] = "rt_wait"
    /\ RefreshStore(p, resp)
    /\ pc' = [pc EXCEPT ![p] = "retry"]
    /\ UNCHANGED <<now, ticks, isRetry, firstErr, secondErr, rtArg, tokResp,
                   override, sentTok, apiReqs, tokReqs, tokFail, result>>
    /\ retryTok' = [retryTok EXCEPT ![p] = RefreshResult(resp, rtArg[p]).access_token]
    /\ UNCHANGED opvars
    /\ UNCHANGED itemvars

\* Mutant of RetryRefreshFail: the refresh failure is what the caller gets.
RetryRefreshFailSurfaced(p, f) ==
    /\ pc[p] = "rt_wait"
    /\ tokFail' = [tokFail EXCEPT ![p] = [at |-> "retry", status |-> f]]
    /\ Finish(p, RefreshFailed(f))
    /\ UNCHANGED <<session, now, ticks, isRetry, firstErr, secondErr, rtArg,
                   tokResp, issuedTok, override, sentTok, apiReqs, tokReqs>>
    /\ UNCHANGED <<opvars, hist, itemvars>>

\* makeRequest: the refresh of the 401 branch fails; catch (refreshError) hands
\* the request's error to handleApiError.
RetryRefreshFail(p, f) ==
    /\ pc[p] = "rt_wait"
    /\ tokFail' = [tokFail EXCEPT ![p] = [at |-> "retry", status |-> f]]
    /\ Finish(p, HandleApiError(firstErr[p]))
    /\ UNCHANGED <<session, now, ticks, isRetry, firstErr, secondErr, rtArg,
                   tokResp, issuedTok, override, sentTok, apiReqs, tokReqs>>
    /\ UNCHANGED <<opvars, hist, itemvars>>

\* Mutant of RetryCall: the retried call is not marked as a retry.
RetryCallUnmarked(p) ==
    /\ pc[p] = "retry"
    /\ EnsureValidToken(p)
    /\ UNCHANGED <<session, now, ticks, isRetry, firstErr, secondErr, tokResp,
                   issuedTok, override, sentTok, apiReqs, tokFail, result>>
    /\ UNCHANGED <<opvars, hist, itemvars>>

\* makeRequest(method, url, data, config, true), up to its first await.
RetryCall(p) ==
    /\ pc[p] = "retry"
    /\ EnsureValidToken(p)
    /\ isRetry' = [isRetry EXCEPT ![p] = TRUE]
    /\ UNCHANGED <<session, now, ticks, firstErr, secondErr, tokResp, issuedTok,
                   override, sentTok, apiReqs, tokFail, result>>
    /\ UNCHANGED <<opvars, hist, itemvars>>

---------------------------------------------------------------------------
(* The token endpoints of the controller, and setAccessToken *)

\* POST auth/exchange-code: exchangeCodeForToken posts the code.
StartExchange(p, ov) ==
    /\ pc[p] = "idle"
    /\ pc' = [pc EXCEPT ![p] = "xc_wait"]
    /\ override' = [override EXCEPT ![p] = ov]
    /\ tokReqs' = [tokReqs EXCEPT ![p] = @ + 1]
    /\ UNCHANGED <<session, now, ticks, isRetry, firstErr, secondErr, rtArg,
                   tokResp, issuedTok, sentTok, apiReqs, tokFail, result>>
    /\ UNCHANGED <<opvars, hist, itemvars>>

\* exchangeCodeForToken: the vendor answers with tokens; setAccessToken.
ExchangeOk(p, resp) ==
    /\ pc[p] = "xc_wait"
    /\ Store(SetAccessToken(session, resp.access_token, resp.realmId,
                            resp.refresh_token, resp.expires_in, now))
    /\ tokResp' = [tokResp EXCEPT ![p] = resp]
    /\ pc' = [pc EXCEPT ![p] = "xc_ctl"]
    /\ UNCHANGED <<now, ticks, isRetry, firstErr, secondErr, rtArg, issuedTok,
                   override, sentTok, apiReqs, tokReqs, tokFail, result>>
    /\ Stamp(resp.expires_in)
    /\ UNCHANGED <<opvars, retryTok>>
    /\ UNCHANGED itemvars

\* Mutant of ExchangeFail: the vendor's status is passed on.
ExchangeFailPassesStatus(p, f) ==
    /\ pc[p] = "xc_wait"
    /\ tokFail' = [tokFail EXCEPT ![p] = [at |-> "exchange", status |-> f]]
    /\ Finish(p, [kind |-> "exchange_failed", status |-> f, code |-> ""])
    /\ UNCHANGED <<session, now, ticks, isRetry, firstErr, secondErr, rtArg,
                   tokResp, issuedTok, override, sentTok, apiReqs, tokReqs>>
    /\ UNCHANGED <<opvars, hist, itemvars>>

\* exchangeCodeForToken: the exchange fails.
ExchangeFail(p, f) ==
    /\ pc[p] = "xc_wait"
    /\ tokFail' = [tokFail EXCEPT ![p] = [at |-> "exchange", status |-> f]]
    /\ Finish(p, ExchangeFailed)
    /\ UNCHANGED <<session, now, ticks, isRetry, firstErr, secondErr, rtArg,
                   tokResp, issuedTok, override, sentTok, apiReqs, tokReqs>>
    /\ UNCHANGED <<opvars, hist, itemvars>>

\* Mutant of ExchangeRealm: the caller's realm id is ignored.
ExchangeRealmOfVendor(ov, vendorRealm) == vendorRealm

\* QuickbooksController.exchangeCode: the realm id it stores and returns.
ExchangeRealm(ov, vendorRealm) == Or(ov, vendorRealm)

\* QuickbooksController.exchangeCode after the service returned: setAccessToken
\* again, with the caller's realm id when one was given.
ExchangeController(p) ==
    /\ pc[p] = "xc_ctl"
    /\ Store(SetAccessToken(session, tokResp[p].access_token,
                            ExchangeRealm(override[p], tokResp[p].realmId),
                            tokResp[p].refresh_token, tokResp[p].expires_in, now))
    /\ tokResp' = [tokResp EXCEPT ![p] = NoResp]
    /\ Finish(p, Ok)
    /\ UNCHANGED <<now, ticks, isRetry, firstErr, secondErr, rtArg, issuedTok,
                   override, sentTok, apiReqs, tokReqs, tokFail>>
    /\ Stamp(tokResp[p].expires_in)
    /\ UNCHANGED <<opvars, retryTok>>
    /\ UNCHANGED itemvars

\* POST auth/refresh, or refreshAccessToken(arg) called directly.
StartRefresh(p, arg) ==
    /\ pc[p] = "idle"
    /\ pc' = [pc EXCEPT ![p] = "rf_wait"]
    /\ rtArg' = [rtArg EXCEPT ![p] = arg]
    /\ tokReqs' = [tokReqs EXCEPT ![p] = @ + 1]
    /\ UNCHANGED <<session, now, ticks, isRetry, firstErr, secondErr, tokResp,
                   issuedTok, override, sentTok, apiReqs, tokFail, result>>
    /\ UNCHANGED <<opvars, hist, itemvars>>

\* refreshAccessToken: the vendor accepts the refresh token it was sent.
RefreshOk(p, resp) ==
    /\ pc[p] = "rf_wait"
    /\ rtArg[p] # ""
    /\ RefreshStore(p, resp)
    /\ Finish(p, Ok)
    /\ UNCHANGED <<now, ticks, isRetry, firstErr, secondErr, rtArg, tokResp,
                   override, sentTok, apiReqs, tokReqs, tokFail>>
    /\ UNCHANGED <<opvars, retryTok>>
    /\ UNCHANGED itemvars

\* Mutant of RefreshFail: a failed refresh drops the access token.
RefreshFailClears(p, f) ==
    /\ pc[p] = "rf_wait"
    /\ tokFail' = [tokFail EXCEPT ![p] = [at |-> "refresh", status |-> f]]
    /\ Finish(p, RefreshFailed(f))
    /\ accessToken' = ""
    /\ UNCHANGED <<refreshToken, realmId, tokenExpiresAt, now, ticks, isRetry,
                   firstErr, secondErr, rtArg, tokResp, issuedTok, override,
                   sentTok, apiReqs, tokReqs>>
    /\ UNCHANGED <<opvars, hist, itemvars>>

\* refreshAccessToken: the refresh fails.
RefreshFail(p, f) ==
    /\ pc[p] = "rf_wait"
    /\ tokFail' = [tokFail EXCEPT ![p] = [at |-> "refresh", status |-> f]]
    /\ Finish(p, RefreshFailed(f))
    /\ UNCHANGED <<session, now, ticks, isRetry, firstErr, secondErr, rtArg,
                   tokResp, issuedTok, override, sentTok, apiReqs, tokReqs>>
    /\ UNCHANGED <<opvars, hist, itemvars>>

\* setAccessToken called by a caller of the service (POST auth/set-tokens passes
\* no expiresIn, the bearer interceptor neither a refresh token nor expiresIn).
SetCredentials(at, realm, rt, expiresIn) ==
    /\ Store(SetAccessToken(session, at, realm, rt, expiresIn, now))
    /\ UNCHANGED <<now, ticks, locals>>
    /\ Stamp(expiresIn)
    /\ UNCHANGED <<opvars, retryTok>>
    /\ UNCHANGED itemvars

\* The locals of handler p are as before a request.
Reset(p) ==
    /\ pc' = [pc EXCEPT ![p] = "idle"]
    /\ isRetry' = [isRetry EXCEPT ![p] = FALSE]
    /\ firstErr' = [firstErr EXCEPT ![p] = NoErr]
    /\ secondErr' = [secondErr EXCEPT ![p] = NoErr]
    /\ rtArg' = [rtArg EXCEPT ![p] = ""]
    /\ tokResp' = [tokResp EXCEPT ![p] = NoResp]
    /\ issuedTok' = [issuedTok EXCEPT ![p] = ""]
    /\ override' = [override EXCEPT ![p] = ""]
    /\ sentTok' = [sentTok EXCEPT ![p] = ""]
    /\ apiReqs' = [apiReqs EXCEPT ![p] = 0]
    /\ tokReqs' = [tokReqs EXCEPT ![p] = 0]
    /\ tokFail' = [tokFail EXCEPT ![p] = NoFail]
    /\ result' = [result EXCEPT ![p] = NoResult]
    /\ UNCHANGED <<session, now, ticks>>

\* GET auth/status: getTokenStatus and isTokenExpired, nothing awaited.
GetStatus(p) ==
    /\ pc[p] = "idle"
    /\ statusOut' = [statusOut EXCEPT ![p] =
            [ isAuthenticated |-> GetTokenStatus.isAuthenticated,
              realmId         |-> GetTokenStatus.realmId,
              tokenExpiresAt  |-> GetTokenStatus.tokenExpiresAt,
              hasRefreshToken |-> GetTokenStatus.hasRefreshToken,
              isExpired       |-> IsTokenExpired ]]
    /\ Finish(p, [kind |-> "status", status |-> 200, code |-> ""])
    /\ UNCHANGED <<session, now, ticks, isRetry, firstErr, secondErr, rtArg,
                   tokResp, issuedTok, override, sentTok, apiReqs, tokReqs, tokFail>>
    /\ UNCHANGED <<op, phase, items, opResult, hist>>
    /\ UNCHANGED itemvars

\* Request bodies of POST auth/set-tokens and POST auth/refresh: the fields of
\* the DTO, and refresh_token, which no DTO declares.
SetTokenBodies ==
    { [access_token |-> at, realmId |-> realm, QUICKBOOKS_REFRESH_TOKEN |-> q,
       refresh_token |-> rt] :
        at \in CallerAccessTokens, realm \in CallerRealms,
        q \in {""} \cup CallerRefreshTokens, rt \in {""} \cup CallerRefreshTokens }
RefreshTokenBodies ==
    { [QUICKBOOKS_REFRESH_TOKEN |-> q, refresh_token |-> rt] :
        q \in {""} \cup CallerRefreshTokens, rt \in {""} \cup CallerRefreshTokens }

\* The global ValidationPipe (whitelist, forbidNonWhitelisted) on SetTokenDto
\* and on RefreshTokenDto: required fields present, no undeclared property.
ValidSetTokenDto(body) ==
    body.access_token # "" /\ body.realmId # "" /\ body.refresh_token = ""
ValidRefreshTokenDto(body) ==
    body.QUICKBOOKS_REFRESH_TOKEN # "" /\ body.refresh_token = ""
ValidationError == [kind |-> "validation", status |-> 400, code |-> ""]

\* The refresh token QuickbooksController.setTokens hands to setAccessToken.
SetTokensRefreshToken(body) == body.refresh_token

\* The refresh token QuickbooksController.refreshToken hands to the service.
RefreshEndpointToken(body) == body.refresh_token

\* POST auth/set-tokens: setAccessToken without expiresIn, then the status
\* (getTokenStatus only; isExpired is not part of this response).
SetTokens(p, body) ==
    /\ pc[p] = "idle"
    /\ IF ValidSetTokenDto(body)
       THEN /\ Store(SetAccessToken(session, body.access_token, body.realmId,
                                    SetTokensRefreshToken(body), Omitted, now))
            /\ statusOut' = [statusOut EXCEPT ![p] =
                    [ isAuthenticated |-> GetTokenStatus'.isAuthenticated,
                      realmId         |-> GetTokenStatus'.realmId,
                      tokenExpiresAt  |-> GetTokenStatus'.tokenExpiresAt,
                      hasRefreshToken |-> GetTokenStatus'.hasRefreshToken,
                      isExpired       |-> FALSE ]]
            /\ Finish(p, [kind |-> "tokens_set", status |-> 200, code |-> ""])
            /\ Stamp(Omitted)
       ELSE /\ Finish(p, ValidationError)
            /\ UNCHANGED <<session, statusOut, issued>>
    /\ UNCHANGED <<now, ticks, isRetry, firstErr, secondErr, rtArg,
                   tokResp, issuedTok, override, sentTok, apiReqs, tokReqs, tokFail>>
    /\ UNCHANGED <<op, phase, items, opResult, retryTok>>
    /\ UNCHANGED itemvars

\* POST auth/refresh: refreshAccessToken with what the controller reads from
\* the body.
RefreshEndpoint(p, body) ==
    /\ pc[p] = "idle"
    /\ IF ValidRefreshTokenDto(body)
       THEN /\ pc' = [pc EXCEPT ![p] = "rf_wait"]
            /\ rtArg' = [rtArg EXCEPT ![p] = RefreshEndpointToken(body)]
            /\ tokReqs' = [tokReqs EXCEPT ![p] = @ + 1]
            /\ UNCHANGED result
       ELSE /\ Finish(p, ValidationError)
            /\ UNCHANGED <<rtArg, tokReqs>>
    /\ UNCHANGED <<session, now, ticks, isRetry, firstErr, secondErr,
                   tokResp, issuedTok, override, sentTok, apiReqs, tokFail>>
    /\ UNCHANGED <<opvars, hist, itemvars>>

\* The response has gone out; the handler serves the next request.
Return(p) ==
    /\ pc[p] = "done"
    /\ Reset(p)
    /\ statusOut' = [statusOut EXCEPT ![p] = NoStatus]
    /\ retryTok' = [retryTok EXCEPT ![p] = ""]
    /\ UNCHANGED <<op, phase, items, opResult, issued>>
    /\ UNCHANGED itemvars

---------------------------------------------------------------------------
(* Specifications *)

\* One step of an authenticated call (makeRequest) of handler p.
HandleCall(p) ==
    \/ Call(p)
    \/ \E resp \in RefreshResponses : EnsureRefreshOk(p, resp)
    \/ \E f \in TokenFailures : EnsureRefreshFail(p, f)
    \/ EnsureSet(p)
    \/ Send(p)
    \/ ApiOk(p)
    \/ \E err \in ApiErrors : ApiFail(p, err)
    \/ \E resp \in RefreshResponses : RetryRefreshOk(p, resp)
    \/ \E f \in TokenFailures : RetryRefreshFail(p, f)
    \/ RetryCall(p)
    \/ Return(p)

\* One step of a request to a token endpoint of the controller, by handler p.
HandleAuth(p) ==
    \/ \E ov \in {""} \cup CallerRealms : StartExchange(p, ov)
    \/ \E resp \in ExchangeResponses : ExchangeOk(p, resp)
    \/ \E f \in TokenFailures : ExchangeFail(p, f)
    \/ ExchangeController(p)
    \/ \E arg \in {""} \cup CallerRefreshTokens \cup VendorRefreshTokens : StartRefresh(p, arg)
    \/ \E resp \in RefreshResponses : RefreshOk(p, resp)
    \/ \E f \in TokenFailures : RefreshFail(p, f)

\* Time passes.
Clock == \E d \in TickSteps : Tick(d)

\* setAccessToken is called by another request (POST auth/set-tokens, the
\* bearer interceptor) or by a caller of the service, between two requests.
Inject ==
    /\ \A p \in Handlers : pc[p] = "idle"
    /\ \E at \in CallerAccessTokens, realm \in CallerRealms,
          rt \in {""} \cup CallerRefreshTokens, e \in ExpiresInArgs :
          SetCredentials(at, realm, rt, e)

\* One step of a request to a token endpoint that takes a DTO, by handler p.
HandleDto(p) ==
    \/ \E body \in SetTokenBodies : SetTokens(p, body)
    \/ \E body \in RefreshTokenBodies : RefreshEndpoint(p, body)

\* Requests of every kind, served one at a time by handler "A".
Next ==
    \/ Clock
    \/ Inject
    \/ HandleCall("A")
    \/ HandleAuth("A")
    \/ GetStatus("A")
    \/ HandleDto("A")

Spec == Init /\ [][Next]_vars

\* An authenticated call that the vendor serves without a failure.
HandleServedCall(p) ==
    \/ Call(p)
    \/ \E resp \in RefreshResponses : EnsureRefreshOk(p, resp)
    \/ EnsureSet(p)
    \/ Send(p)
    \/ ApiOk(p)
    \/ Return(p)

\* Two authenticated calls in flight at once on the one session: any call of
\* handler "A", and a call of handler "B" that the vendor serves.
NextRace == HandleCall("A") \/ HandleServedCall("B")

SpecRace == Init /\ [][NextRace]_vars

---------------------------------------------------------------------------
(* Resource operations *)

\* Operations of the service: getCompanyInfo checks the realm id itself, the
\* others go to executeQuery or makeRequest directly.
ListOps == {"getCustomers"}
ByIdOps == {"getCustomerById", "getInvoiceById", "getItemById"}
Ops == {"getCompanyInfo", "createCustomer"} \cup ListOps \cup ByIdOps

\* if (!this.realmId) throw ... at the head of the operation
ChecksRealm(o) == o = "getCompanyInfo"

\* QueryResponse[entity] of the first request: the rows, at most MaxRows.
MaxRows == 2
AllRows == <<"x1", "x2", "x3">>
RowSets == { SubSeq(AllRows, 1, n) : n \in 0..MaxRows }

\* QueryResponse of the count request: totalCount, or a row with a Count
\* string, or neither.
NaN == -1
CountResponses ==
    { [form |-> "totalCount", totalCount |-> n, Count |-> ""] : n \in {0, 7} }
    \cup { [form |-> "row", totalCount |-> 0, Count |-> c] : c \in {"7", "0", "x"} }
    \cup { [form |-> "none", totalCount |-> 0, Count |-> ""] }

\* parseInt
ParseInt(str) == CASE str = "7" -> 7 [] str = "0" -> 0 [] OTHER -> NaN

\* n || d of JavaScript on numbers
NumOr(n, d) == IF n = NaN \/ n = 0 THEN d ELSE n

\* executeQuery: totalCount from the count response
TotalCount(c, rows) ==
    IF c.form = "totalCount" THEN c.totalCount
    ELSE IF c.form = "row" THEN NumOr(ParseInt(c.Count), Len(rows))
    ELSE Len(rows)

\* Mutant of ExecuteQueryTotal: the catch leaves totalCount at its initial 0.
ExecuteQueryTotalZero(countResult, c, rows) ==
    IF countResult.kind = "ok" THEN TotalCount(c, rows) ELSE 0

\* executeQuery: totalCount after the count request returned or raised
ExecuteQueryTotal(countResult, c, rows) ==
    IF countResult.kind = "ok" THEN TotalCount(c, rows) ELSE Len(rows)

Page(total, rows) ==
    [kind |-> "page", status |-> 200, code |-> "", totalCount |-> total, items |-> rows]
Raised(r) ==
    [kind |-> r.kind, status |-> r.status, code |-> r.code, totalCount |-> 0, items |-> <<>>]
AuthConfigError == Raised([kind |-> "auth_config", status |-> 400, code |-> ""])
NotFound == Raised([kind |-> "notfound", status |-> 404, code |-> ""])
Entity == [kind |-> "entity", status |-> 200, code |-> "", totalCount |-> 0, items |-> <<>>]

\* Mutant of ById: the last row is returned.
ByIdLast(rows) ==
    IF Len(rows) = 0 THEN NotFound
    ELSE [kind |-> "row", status |-> 200, code |-> "", totalCount |-> 0,
          items |-> <<rows[Len(rows)]>>]

\* getCustomerById, getInvoiceById, getItemById after executeQuery
ById(rows) ==
    IF Len(rows) = 0 THEN NotFound
    ELSE [kind |-> "row", status |-> 200, code |-> "", totalCount |-> 0,
          items |-> <<rows[1]>>]

\* An operation starts: the realm check where the operation has one, then the
\* head of makeRequest.
StartOp(p, o) ==
    /\ pc[p] = "idle"
    /\ op[p] = ""
    /\ op' = [op EXCEPT ![p] = o]
    /\ IF ChecksRealm(o) /\ realmId = ""
       THEN /\ phase' = [phase EXCEPT ![p] = "end"]
            /\ opResult' = [opResult EXCEPT ![p] = AuthConfigError]
            /\ UNCHANGED <<pc, rtArg, tokReqs>>
       ELSE /\ phase' = [phase EXCEPT ![p] = "first"]
            /\ EnsureValidToken(p)
            /\ UNCHANGED opResult
    /\ UNCHANGED <<session, now, ticks, isRetry, firstErr, secondErr, tokResp,
                   issuedTok, override, sentTok, apiReqs, tokFail, result>>
    /\ UNCHANGED <<statusOut, items, hist>>
    /\ UNCHANGED itemvars

\* makeRequest between its head and its end.
CallSteps(p) ==
    \/ \E resp \in RefreshResponses : EnsureRefreshOk(p, resp)
    \/ \E f \in TokenFailures : EnsureRefreshFail(p, f)
    \/ EnsureSet(p)
    \/ Send(p)
    \/ ApiOk(p)
    \/ \E err \in ApiErrors : ApiFail(p, err)
    \/ \E resp \in RefreshResponses : RetryRefreshOk(p, resp)
    \/ \E f \in TokenFailures : RetryRefreshFail(p, f)
    \/ RetryCall(p)

\* The first makeRequest of the operation raised: the operation raises it.
OpRaise(p) ==
    /\ pc[p] = "done" /\ phase[p] = "first"
    /\ result[p].kind # "ok"
    /\ phase' = [phase EXCEPT ![p] = "end"]
    /\ opResult' = [opResult EXCEPT ![p] = Raised(result[p])]
    /\ UNCHANGED <<session, now, ticks, locals, statusOut, op, items, hist>>
    /\ UNCHANGED itemvars

\* getCompanyInfo, createCustomer: the entity of the response is returned.
OpReturn(p) ==
    /\ pc[p] = "done" /\ phase[p] = "first"
    /\ op[p] \notin ListOps \cup ByIdOps
    /\ result[p].kind = "ok"
    /\ phase' = [phase EXCEPT ![p] = "end"]
    /\ opResult' = [opResult EXCEPT ![p] = Entity]
    /\ UNCHANGED <<session, now, ticks, locals, statusOut, op, items, hist>>
    /\ UNCHANGED itemvars

\* executeQuery: the first request returned rows; the count request starts
\* with the head of its own makeRequest.
QueryRows(p, rows) ==
    /\ pc[p] = "done" /\ phase[p] = "first"
    /\ op[p] \in ListOps \cup ByIdOps
    /\ result[p].kind = "ok"
    /\ items' = [items EXCEPT ![p] = rows]
    /\ phase' = [phase EXCEPT ![p] = "counting"]
    /\ IF NeedsRefresh
       THEN /\ pc' = [pc EXCEPT ![p] = "ev_wait"]
            /\ rtArg' = [rtArg EXCEPT ![p] = refreshToken]
            /\ tokReqs' = [tokReqs EXCEPT ![p] = 1]
       ELSE /\ pc' = [pc EXCEPT ![p] = "send"]
            /\ rtArg' = [rtArg EXCEPT ![p] = ""]
            /\ tokReqs' = [tokReqs EXCEPT ![p] = 0]
    /\ isRetry' = [isRetry EXCEPT ![p] = FALSE]
    /\ firstErr' = [firstErr EXCEPT ![p] = NoErr]
    /\ secondErr' = [secondErr EXCEPT ![p] = NoErr]
    /\ tokResp' = [tokResp EXCEPT ![p] = NoResp]
    /\ issuedTok' = [issuedTok EXCEPT ![p] = ""]
    /\ sentTok' = [sentTok EXCEPT ![p] = ""]
    /\ apiReqs' = [apiReqs EXCEPT ![p] = 0]
    /\ tokFail' = [tokFail EXCEPT ![p] = NoFail]
    /\ result' = [result EXCEPT ![p] = NoResult]
    /\ retryTok' = [retryTok EXCEPT ![p] = ""]
    /\ UNCHANGED <<session, now, ticks, override, statusOut, op, opResult, issued>>
    /\ UNCHANGED itemvars

\* executeQuery: the count request returned c or raised; the page is returned,
\* and a by-id operation looks at its rows.
CountDone(p, c) ==
    /\ pc[p] = "done" /\ phase[p] = "counting"
    /\ phase' = [phase EXCEPT ![p] = "end"]
    /\ opResult' = [opResult EXCEPT ![p] =
            IF op[p] \in ByIdOps THEN ById(items[p])
            ELSE Page(ExecuteQueryTotal(result[p], c, items[p]), items[p])]
    /\ UNCHANGED <<session, now, ticks, locals, statusOut, op, items, hist>>
    /\ UNCHANGED itemvars

\* The operation has returned or raised; the handler serves the next request.
OpEnd(p) ==
    /\ phase[p] = "end"
    /\ Reset(p)
    /\ op' = [op EXCEPT ![p] = ""]
    /\ phase' = [phase EXCEPT ![p] = ""]
    /\ items' = [items EXCEPT ![p] = <<>>]
    /\ opResult' = [opResult EXCEPT ![p] = NoOpResult]
    /\ retryTok' = [retryTok EXCEPT ![p] = ""]
    /\ UNCHANGED <<statusOut, issued>>
    /\ UNCHANGED itemvars

\* Resource operations served one at a time by handler "A", and setAccessToken
\* between them.
InjectBetweenOps == (\A p \in Handlers : op[p] = "") /\ Inject

NextOps ==
    \/ InjectBetweenOps
    \/ \E o \in Ops : StartOp("A", o)
    \/ CallSteps("A")
    \/ OpRaise("A")
    \/ OpReturn("A")
    \/ \E rows \in RowSets : QueryRows("A", rows)
    \/ \E c \in CountResponses : CountDone("A", c)
    \/ OpEnd("A")

SpecOps == Init /\ [][NextOps]_vars

\* configService.get('QUICKBOOKS_REALM_ID'): not set here; when it is set the
\* constructor has stored it as the realm id, which InterceptorRealm falls
\* back to.
EnvRealm == ""

\* The realm id that AuthTokenInterceptor gives to setAccessToken, reqRealm
\* being the realmId of the query or the body of the request.
InterceptorRealm(reqRealm) == Or(reqRealm, Or(EnvRealm, GetTokenStatus.realmId))

\* The operations that requests with a Bearer token ask for here.
BearerOps == {"getCompanyInfo", "getCustomers"}

\* A request with an Authorization header is accepted by handler p:
\* AuthTokenInterceptor calls setAccessToken(accessToken, realmId) when it has
\* a realm id, then next.handle() runs operation o up to its first await.
Accept(p, reqRealm, o) ==
    /\ pc[p] = "idle"
    /\ op[p] = ""
    /\ IF InterceptorRealm(reqRealm) # ""
       THEN /\ Store(SetAccessToken(session, RequestBearer[p],
                                    InterceptorRealm(reqRealm), "", Omitted, now))
            /\ Stamp(Omitted)
       ELSE UNCHANGED <<session, issued>>
    /\ UNCHANGED <<now, ticks>>
    /\ op' = [op EXCEPT ![p] = o]
    /\ IF ChecksRealm(o) /\ realmId' = ""
       THEN /\ phase' = [phase EXCEPT ![p] = "end"]
            /\ opResult' = [opResult EXCEPT ![p] = AuthConfigError]
            /\ UNCHANGED <<pc, rtArg, tokReqs>>
       ELSE /\ phase' = [phase EXCEPT ![p] = "first"]
            /\ IF NeedsRefresh'
               THEN /\ pc' = [pc EXCEPT ![p] = "ev_wait"]
                    /\ rtArg' = [rtArg EXCEPT ![p] = refreshToken']
                    /\ tokReqs' = [tokReqs EXCEPT ![p] = @ + 1]
               ELSE /\ pc' = [pc EXCEPT ![p] = "send"]
                    /\ UNCHANGED <<rtArg, tokReqs>>
            /\ UNCHANGED opResult
    /\ UNCHANGED <<isRetry, firstErr, secondErr, tokResp, issuedTok, override,
                   sentTok, apiReqs, tokFail, result>>
    /\ UNCHANGED <<statusOut, items, retryTok>>
    /\ UNCHANGED itemvars

\* One step of a request with a Bearer token, served by handler p, on a
\* session that holds no refresh token: makeRequest posts no refresh.
HandleBearer(p) ==
    \/ \E reqRealm \in {""} \cup CallerRealms, o \in BearerOps : Accept(p, reqRealm, o)
    \/ Send(p)
    \/ ApiOk(p)
    \/ \E err \in ApiErrors : ApiFail(p, err)
    \/ OpRaise(p)
    \/ OpReturn(p)
    \/ \E rows \in RowSets : QueryRows(p, rows)
    \/ \E c \in CountResponses : CountDone(p, c)
    \/ OpEnd(p)

\* Two requests with different Bearer tokens in flight at once.
NextBearer == HandleBearer("A") \/ HandleBearer("B")

\* The session holds no refresh token: nothing was exchanged, callers bring
\* their access tokens with their requests.
InitBearer == Init /\ refreshToken = ""

SpecBearer == InitBearer /\ [][NextBearer]_vars

---------------------------------------------------------------------------
(* createItem, formatItemRequestBody, resolveAccountRef, findOrCreateAccount *)

\* An account reference of the item: absent, an object with neither value nor
\* name, an object with a value (the account id), an object with a name only.
RefShapes == {"missing", "empty", "id", "name"}

\* The items createItem is called with.  A Service item has one account
\* reference to resolve, an Inventory item three.
ItemInputs ==
    { [Type |-> "Service", Income |-> i, Expense |-> "missing", Asset |-> "missing"] :
          i \in RefShapes }
    \cup { [Type |-> "Inventory", Income |-> i, Expense |-> e, Asset |-> a] :
          i \in RefShapes, e \in RefShapes, a \in RefShapes }

\* formatItemRequestBody: the account references it resolves, in this order.
Refs(d) == IF d.Type = "Inventory" THEN <<"Income", "Expense", "Asset">> ELSE <<"Income">>

\* formatItemRequestBody: the check at the head of the branch of the item type.
FormatInvalid(d) ==
    IF d.Type = "Inventory"
    THEN d.Income = "missing" \/ d.Expense = "missing" \/ d.Asset = "missing"
    ELSE d.Income \in {"missing", "empty"}

\* resolveAccountRef returns at once for a reference with a value: the index
\* of the first reference from k on that has none, or Len(Refs(d)) + 1.
NextUnresolved(d, k) ==
    LET S == { j \in k..Len(Refs(d)) : d[Refs(d)[j]] # "id" }
    IN  IF S = {} THEN Len(Refs(d)) + 1 ELSE CHOOSE j \in S : \A i \in S : j <= i

ValidationError400 == Raised([kind |-> "validation", status |-> 400, code |-> ""])
DuplicateItemName == Raised([kind |-> "conflict", status |-> 409, code |-> "DUPLICATE_ITEM_NAME"])

\* The response object of the HttpException that makeRequest raised with
\* result r: handleApiError builds it with message, code, detail and
\* originalError; an HttpException made from a string holds the string.
HttpExceptionResponse(r) ==
    [message |-> r.kind, code |-> r.code, originalError |-> [code |-> r.code]]

\* findOrCreateAccount, catch: error.response?.data?.Fault?.Error?.[0]?.code
FaultCode(response) == IF "data" \in DOMAIN response THEN response.data.code ELSE ""

\* findOrCreateAccount, catch: the test for a duplicate name fault.
IsDuplicateFault(response) == FaultCode(response) = "6240"

\* findOrCreateAccount, catch: error.response?.status || HttpStatus.BAD_REQUEST
WrapperStatus(response) ==
    IF "status" \in DOMAIN response /\ response.status # 0 THEN response.status ELSE 400

\* findOrCreateAccount, catch: 'Failed to find or create account'
AccountFailure(response) ==
    Raised([kind |-> "account_failed", status |-> WrapperStatus(response), code |-> ""])

\* What the vendor answers to a failed request of createItem.
ItemApiErrors == { [status |-> 400, code |-> "6240"], [status |-> 500, code |-> ""] }

\* Data.Account.Id of the answer to the account create: an id, or none.
CreatedIds == {"", "x3"}

\* The next makeRequest of the operation starts: its locals, and its head.
NextRequest(p) ==
    /\ IF NeedsRefresh
       THEN /\ pc' = [pc EXCEPT ![p] = "ev_wait"]
            /\ rtArg' = [rtArg EXCEPT ![p] = refreshToken]
            /\ tokReqs' = [tokReqs EXCEPT ![p] = 1]
       ELSE /\ pc' = [pc EXCEPT ![p] = "send"]
            /\ rtArg' = [rtArg EXCEPT ![p] = ""]
            /\ tokReqs' = [tokReqs EXCEPT ![p] = 0]
    /\ isRetry' = [isRetry EXCEPT ![p] = FALSE]
    /\ firstErr' = [firstErr EXCEPT ![p] = NoErr]
    /\ secondErr' = [secondErr EXCEPT ![p] = NoErr]
    /\ tokResp' = [tokResp EXCEPT ![p] = NoResp]
    /\ issuedTok' = [issuedTok EXCEPT ![p] = ""]
    /\ sentTok' = [sentTok EXCEPT ![p] = ""]
    /\ apiReqs' = [apiReqs EXCEPT ![p] = 0]
    /\ tokFail' = [tokFail EXCEPT ![p] = NoFail]
    /\ result' = [result EXCEPT ![p] = NoResult]
    /\ retryTok' = [retryTok EXCEPT ![p] = ""]

\* The operation makes no further request.
NoRequest == UNCHANGED <<pc, rtArg, tokReqs, isRetry, firstErr, secondErr, tokResp,
                         issuedTok, sentTok, apiReqs, tokFail, result, retryTok>>

\* createItem raises r.
ItemRaise(p, r, c) ==
    /\ phase' = [phase EXCEPT ![p] = "end"]
    /\ opResult' = [opResult EXCEPT ![p] = r]
    /\ itemCall' = [itemCall EXCEPT ![p] = c]
    /\ NoRequest

\* formatItemRequestBody from its k-th account reference on, c being the
\* record of the call so far: references with a value need no request; a
\* reference with a name goes to findOrCreateAccount, which checks the realm id
\* and posts its search; resolveAccountRef raises for a reference with neither;
\* after the last reference createItem posts the item.
Continue(p, k, c) ==
    LET d == itemData[p]
        j == NextUnresolved(d, k)
    IN  IF j > Len(Refs(d))
        THEN /\ phase' = [phase EXCEPT ![p] = "item_post"]
             /\ itemCall' = [itemCall EXCEPT ![p] = c]
             /\ NextRequest(p)
             /\ UNCHANGED opResult
        ELSE IF d[Refs(d)[j]] = "name"
        THEN IF realmId = ""
             THEN ItemRaise(p, AuthConfigError, [c EXCEPT !.ref = j])
             ELSE /\ phase' = [phase EXCEPT ![p] = "acct_search"]
                  /\ itemCall' = [itemCall EXCEPT ![p] = [c EXCEPT !.ref = j]]
                  /\ NextRequest(p)
                  /\ UNCHANGED opResult
        ELSE ItemRaise(p, ValidationError400, [c EXCEPT !.ref = j])

\* createItem(itemData): findItemByName, executeQuery, the head of makeRequest.
StartCreateItem(p, d) ==
    /\ pc[p] = "idle"
    /\ op[p] = ""
    /\ op' = [op EXCEPT ![p] = "createItem"]
    /\ itemData' = [itemData EXCEPT ![p] = d]
    /\ phase' = [phase EXCEPT ![p] = "lookup"]
    /\ EnsureValidToken(p)
    /\ UNCHANGED <<session, now, ticks, isRetry, firstErr, secondErr, tokResp,
                   issuedTok, override, sentTok, apiReqs, tokFail, result>>
    /\ UNCHANGED <<statusOut, items, opResult, hist, itemCall>>

\* executeQuery of findItemByName: the first request raised; so does createItem.
ItemLookupRaise(p) ==
    /\ op[p] = "createItem" /\ pc[p] = "done" /\ phase[p] = "lookup"
    /\ result[p].kind # "ok"
    /\ ItemRaise(p, Raised(result[p]), itemCall[p])
    /\ UNCHANGED <<session, now, ticks, override, statusOut, op, items, issued, itemData>>

\* executeQuery of findItemByName: the first request returned rows; the count
\* request starts.
ItemLookupRows(p, rows) ==
    /\ op[p] = "createItem" /\ pc[p] = "done" /\ phase[p] = "lookup"
    /\ result[p].kind = "ok"
    /\ items' = [items EXCEPT ![p] = rows]
    /\ itemCall' = [itemCall EXCEPT ![p].looked = TRUE]
    /\ phase' = [phase EXCEPT ![p] = "lookup_count"]
    /\ NextRequest(p)
    /\ UNCHANGED <<session, now, ticks, override, statusOut, op, opResult, issued, itemData>>

\* Mutant of ItemCountDone: createItem does not look at what findItemByName
\* found.
ItemCountDoneUnchecked(p) ==
    /\ op[p] = "createItem" /\ pc[p] = "done" /\ phase[p] = "lookup_count"
    /\ IF FormatInvalid(itemData[p])
       THEN ItemRaise(p, ValidationError400, itemCall[p])
       ELSE Continue(p, 1, itemCall[p])
    /\ UNCHANGED <<session, now, ticks, override, statusOut, op, items, issued, itemData>>

\* executeQuery of findItemByName: the count request returned or raised.
\* createItem raises the conflict when a row was found; otherwise
\* formatItemRequestBody checks the references of the item type and resolves
\* them one after the other.
ItemCountDone(p) ==
    /\ op[p] = "createItem" /\ pc[p] = "done" /\ phase[p] = "lookup_count"
    /\ IF Len(items[p]) > 0
       THEN ItemRaise(p, DuplicateItemName, itemCall[p])
       ELSE IF FormatInvalid(itemData[p])
       THEN ItemRaise(p, ValidationError400, itemCall[p])
       ELSE Continue(p, 1, itemCall[p])
    /\ UNCHANGED <<session, now, ticks, override, statusOut, op, items, issued, itemData>>

\* findOrCreateAccount: its search, or the search of its catch block, returned
\* rows.  A row gives the account id; no row leads to the create after the
\* first search, and to the failure after the search of the catch block.
AccountRows(p, rows) ==
    /\ op[p] = "createItem" /\ pc[p] = "done"
    /\ phase[p] \in {"acct_search", "acct_retry"}
    /\ result[p].kind = "ok"
    /\ IF Len(rows) > 0
       THEN Continue(p, itemCall[p].ref + 1, [itemCall[p] EXCEPT !.resolved = rows[1]])
       ELSE IF phase[p] = "acct_search"
       THEN /\ phase' = [phase EXCEPT ![p] = "acct_create"]
            /\ NextRequest(p)
            /\ UNCHANGED <<opResult, itemCall>>
       ELSE ItemRaise(p, AccountFailure(HttpExceptionResponse(itemCall[p].caught)),
                      itemCall[p])
    /\ UNCHANGED <<session, now, ticks, override, statusOut, op, items, issued, itemData>>

\* findOrCreateAccount: the create returned, with the id of the account or
\* without one ('Failed to create account', raised into its own catch block).
AccountCreated(p, id) ==
    /\ op[p] = "createItem" /\ pc[p] = "done" /\ phase[p] = "acct_create"
    /\ result[p].kind = "ok"
    /\ LET c == [itemCall[p] EXCEPT !.accountWrites = @ + apiReqs[p]]
       IN  IF id # ""
           THEN Continue(p, c.ref + 1, [c EXCEPT !.resolved = id])
           ELSE ItemRaise(p, AccountFailure([message |-> "Failed to create account"]), c)
    /\ UNCHANGED <<session, now, ticks, override, statusOut, op, items, issued, itemData>>

\* findOrCreateAccount: a request raised.  The catch block searches again when
\* it sees a duplicate name fault in the error, and raises its failure
\* otherwise; what the search of the catch block raises goes out as it is.
AccountFailed(p) ==
    /\ op[p] = "createItem" /\ pc[p] = "done"
    /\ phase[p] \in {"acct_search", "acct_create", "acct_retry"}
    /\ result[p].kind # "ok"
    /\ LET c == [itemCall[p] EXCEPT !.accountWrites =
                     @ + (IF phase[p] = "acct_create" THEN apiReqs[p] ELSE 0)]
       IN  IF phase[p] = "acct_retry"
           THEN ItemRaise(p, Raised(result[p]), c)
           ELSE IF IsDuplicateFault(HttpExceptionResponse(result[p]))
           THEN /\ phase' = [phase EXCEPT ![p] = "acct_retry"]
                /\ itemCall' = [itemCall EXCEPT ![p] = [c EXCEPT !.caught = result[p]]]
                /\ NextRequest(p)
                /\ UNCHANGED opResult
           ELSE ItemRaise(p, AccountFailure(HttpExceptionResponse(result[p])), c)
    /\ UNCHANGED <<session, now, ticks, override, statusOut, op, items, issued, itemData>>

\* createItem: the post of the item returned or raised.
ItemPosted(p) ==
    /\ op[p] = "createItem" /\ pc[p] = "done" /\ phase[p] = "item_post"
    /\ ItemRaise(p, IF result[p].kind = "ok" THEN Entity ELSE Raised(result[p]),
                 [itemCall[p] EXCEPT !.itemWrites = @ + apiReqs[p]])
    /\ UNCHANGED <<session, now, ticks, override, statusOut, op, items, issued, itemData>>

\* createItem has returned or raised; the handler serves the next request.
ItemEnd(p) ==
    /\ op[p] = "createItem" /\ phase[p] = "end"
    /\ Reset(p)
    /\ op' = [op EXCEPT ![p] = ""]
    /\ phase' = [phase EXCEPT ![p] = ""]
    /\ items' = [items EXCEPT ![p] = <<>>]
    /\ opResult' = [opResult EXCEPT ![p] = NoOpResult]
    /\ retryTok' = [retryTok EXCEPT ![p] = ""]
    /\ itemData' = [itemData EXCEPT ![p] = NoItemData]
    /\ itemCall' = [itemCall EXCEPT ![p] = NoItemCall]
    /\ UNCHANGED <<statusOut, issued>>

\* The write requests createItem has sent so far: posts of accounts and of the
\* item, those in flight included.
AccountWritesSent(p) ==
    itemCall[p].accountWrites + (IF phase[p] = "acct_create" THEN apiReqs[p] ELSE 0)
ItemWritesSent(p) ==
    itemCall[p].itemWrites + (IF phase[p] = "item_post" THEN apiReqs[p] ELSE 0)
WritesSent(p) == AccountWritesSent(p) + ItemWritesSent(p)

\* createItem calls served one at a time by handler "A", on a session that
\* holds no refresh token: ensureValidToken returns at once.
NextItems ==
    \/ \E d \in ItemInputs : StartCreateItem("A", d)
    \/ Send("A")
    \/ ApiOk("A")
    \/ \E err \in ItemApiErrors : ApiFail("A", err)
    \/ ItemLookupRaise("A")
    \/ \E rows \in RowSets : ItemLookupRows("A", rows)
    \/ ItemCountDone("A")
    \/ \E rows \in RowSets : AccountRows("A", rows)
    \/ \E id \in CreatedIds : AccountCreated("A", id)
    \/ AccountFailed("A")
    \/ ItemPosted("A")
    \/ ItemEnd("A")

SpecItems == InitBearer /\ [][NextItems]_vars

\* Requests served one at a time by handler "A", where every upstream request
\* that a makeRequest call awaits is answered or fails, and the continuation
\* of the call then runs.
SpecLive == Init /\ [][Next]_vars /\ WF_vars(CallSteps("A"))

---------------------------------------------------------------------------
(* Claims *)

\* Handler p is inside makeRequest or has left it.
InCall(p) == pc[p] \in {"ev_wait", "ev_set", "send", "api_wait", "rt_wait", "retry"}
                \/ (pc[p] = "done" /\ (apiReqs[p] > 0 \/ tokFail[p].at = "ensure"))

\* C1: an invocation of makeRequest sends at most two resource requests, and a
\* second one only as the retry of a first attempt that failed with an
\* authentication failure (401 or fault code "3200") while a refresh token was
\* on file (a stored refresh token is never removed, so it still is).
C1_AtMostOneRetry ==
    \A p \in Handlers :
        /\ apiReqs[p] <= 2
        /\ (apiReqs[p] = 2 \/ pc[p] \in {"rt_wait", "retry"} \/ isRetry[p]) =>
               /\ IsAuthError(firstErr[p])
               /\ refreshToken # ""
        /\ apiReqs[p] = 2 => isRetry[p]

C1_Witness ==
    \E p \in Handlers : pc[p] = "done" /\ apiReqs[p] = 2 /\ isRetry[p]

\* C2: when the retried request fails too, the caller gets the error of the
\* retry (the second failure), not that of the first attempt.
C2_RetryFailureSurfaced ==
    \A p \in Handlers :
        (pc[p] = "done" /\ apiReqs[p] = 2 /\ secondErr[p] # NoErr) =>
            result[p] = HandleApiError(secondErr[p])

\* C3: a call that finds a refresh token and an expired access token posts
\* exactly one refresh before its request, and the request that then succeeds
\* carries the access token that refresh returned.
C3_Inv ==
    \A p \in Handlers :
        (pc[p] \in {"api_wait", "done"} /\ apiReqs[p] = 1 /\ firstErr[p] = NoErr
            /\ tokReqs[p] >= 1) =>
                /\ tokReqs[p] = 1
                /\ sentTok[p] = issuedTok[p]
                /\ sentTok[p] \in VendorAccessTokens

C3_Step ==
    \A p \in Handlers :
        (pc[p] = "idle" /\ pc'[p] \in {"send", "ev_wait"}
            /\ refreshToken # "" /\ IsTokenExpired) =>
                /\ pc'[p] = "ev_wait"
                /\ tokReqs'[p] = 1
                /\ rtArg'[p] = refreshToken

\* C3: both parts, in every state and at every step.
C3_RefreshBeforeCall == []C3_Inv /\ [][C3_Step]_vars

C3_Witness ==
    \E p \in Handlers :
        /\ pc[p] = "done" /\ result[p] = Ok /\ ~isRetry[p]
        /\ apiReqs[p] = 1 /\ tokReqs[p] = 1
        /\ sentTok[p] = issuedTok[p] /\ sentTok[p] # ""

\* C4: without a refresh token a call never contacts the token endpoint, also
\* when the token is expired: ensureValidToken returns at once, the request goes
\* out with the access token the session holds, and a failure is not retried.
C4_NoRefreshTokenNoRefresh ==
    \A p \in Handlers :
        (refreshToken = "" /\ InCall(p)) =>
            /\ pc[p] \in {"send", "api_wait", "done"}
            /\ tokReqs[p] = 0
            /\ apiReqs[p] <= 1
            /\ apiReqs[p] = 1 => sentTok[p] = accessToken

C4_Witness ==
    \E p \in Handlers :
        /\ refreshToken = "" /\ IsTokenExpired
        /\ pc[p] = "done" /\ apiReqs[p] = 1 /\ tokReqs[p] = 0
        /\ sentTok[p] = accessToken /\ accessToken # ""
        /\ result[p].kind = "api" /\ result[p].status = 401

\* C5: there is no single-flight guard.  Every call that finds the token
\* expired and a refresh token on file posts its own refresh, whatever the
\* other handler is doing, and every refresh that succeeds overwrites the
\* session with its own result.
C5_Step ==
    \A p \in Handlers :
        /\ (pc[p] \in {"idle", "retry"} /\ pc'[p] # pc[p]
              /\ refreshToken # "" /\ IsTokenExpired) =>
                 /\ pc'[p] = "ev_wait"
                 /\ tokReqs'[p] = tokReqs[p] + 1
        /\ (pc[p] \in {"ev_wait", "rt_wait"} /\ pc'[p] \in {"ev_set", "retry"}) =>
                 /\ accessToken' = issuedTok'[p]
                 /\ accessToken' \in VendorAccessTokens

\* C5 as a property of every step of the two racing calls.
C5_EveryStaleCallRefreshes == [][C5_Step]_vars

\* Both handlers found the token expired and each posted its own refresh; both
\* refreshes were answered with different tokens, and the session now holds B's
\* in place of the one A's refresh had stored.
C5_Witness ==
    /\ pc["A"] \in {"ev_set", "send", "api_wait"}
    /\ pc["B"] \in {"ev_set", "send", "api_wait"}
    /\ ~isRetry["A"] /\ tokReqs["A"] = 1
    /\ ~isRetry["B"] /\ tokReqs["B"] = 1
    /\ issuedTok["A"] \in VendorAccessTokens
    /\ issuedTok["B"] \in VendorAccessTokens
    /\ issuedTok["A"] # issuedTok["B"]
    /\ accessToken = issuedTok["B"]

\* C6: ensureValidToken raises "re-authentication required" exactly when the
\* token endpoint refused the refresh with 400 or 401; any other failure of the
\* refresh is not reported as re-authentication required.
C6_OnlyAuthClassIsReauth ==
    \A p \in Handlers :
        (pc[p] = "done" /\ tokFail[p].at = "ensure" /\ ~isRetry[p]) =>
            (result[p].kind = "reauth" <=> tokFail[p].status \in {400, 401})

\* C7 as claimed: a refresh that succeeds with a response without a refresh
\* token leaves the stored refresh token as it was.
C7_Original_Step ==
    \A p \in Handlers : \A resp \in RefreshResponses :
        (resp.refresh_token = ""
            /\ (EnsureRefreshOk(p, resp) \/ RetryRefreshOk(p, resp) \/ RefreshOk(p, resp)))
        => refreshToken' = refreshToken

\* C7 as claimed, at every step.
C7_Original == [][C7_Original_Step]_vars

\* C7 as amended: a refresh called with a token that succeeds with a response
\* without a refresh token stores the refresh token it was called with.
C7_Step ==
    \A p \in Handlers : \A resp \in RefreshResponses :
        (resp.refresh_token = "" /\ rtArg[p] # ""
            /\ (EnsureRefreshOk(p, resp) \/ RetryRefreshOk(p, resp) \/ RefreshOk(p, resp)))
        => refreshToken' = rtArg[p]

\* C7 as amended, at every step.
C7_ArgumentStored == [][C7_Step]_vars

C7_Witness ==
    \E p \in Handlers :
        /\ pc[p] = "done" /\ result[p] = Ok /\ apiReqs[p] = 0
        /\ issuedTok[p] # "" /\ accessToken = issuedTok[p]
        /\ rtArg[p] \in CallerRefreshTokens /\ refreshToken = rtArg[p]

\* C8: after a successful code exchange the session is authenticated, holds a
\* refresh token, and its realm id is the vendor's; after the controller's part
\* the realm id is the caller's when the caller gave one.
C8_Step ==
    \A p \in Handlers :
        /\ (pc[p] = "xc_wait" /\ pc'[p] = "xc_ctl") =>
              /\ GetTokenStatus'.isAuthenticated
              /\ GetTokenStatus'.hasRefreshToken
              /\ GetTokenStatus'.realmId = tokResp'[p].realmId
              /\ tokResp'[p].realmId = VendorRealm
        /\ (pc[p] = "xc_ctl" /\ pc'[p] = "done") =>
              /\ GetTokenStatus'.isAuthenticated
              /\ GetTokenStatus'.hasRefreshToken
              /\ GetTokenStatus'.realmId =
                    (IF override[p] # "" THEN override[p] ELSE tokResp[p].realmId)

\* C8 at every step of an exchange.
C8_ExchangeAuthenticates == [][C8_Step]_vars

C8_Witness ==
    \E p \in Handlers :
        /\ pc[p] = "done" /\ result[p] = Ok /\ override[p] # ""
        /\ tokReqs[p] = 1 /\ apiReqs[p] = 0 /\ issuedTok[p] = ""
        /\ GetTokenStatus.isAuthenticated /\ GetTokenStatus.hasRefreshToken
        /\ GetTokenStatus.realmId = override[p]

\* C9 as claimed: without an expiry, isTokenExpired is false.
C9_Original == tokenExpiresAt = NoDate => ~IsTokenExpired

\* C9 as amended: without an expiry, isTokenExpired is false unless the access
\* token is absent and a refresh token is present, and then it is true.
C9_NoExpiryFailsOpen ==
    tokenExpiresAt = NoDate =>
        (IsTokenExpired <=> (accessToken = "" /\ refreshToken # ""))

\* A call went ahead without a refresh: a refresh token and an access token are
\* on file and no expiry is known.
C9_Witness ==
    /\ tokenExpiresAt = NoDate /\ accessToken # "" /\ refreshToken # ""
    /\ ~IsTokenExpired
    /\ \E p \in Handlers : pc[p] = "send" /\ tokReqs[p] = 0

\* C10: with an access token and an expiry, isTokenExpired is true exactly when
\* the expiry is at or before now plus five minutes.
C10_InclusiveMargin ==
    (accessToken # "" /\ tokenExpiresAt # NoDate) =>
        (IsTokenExpired <=> tokenExpiresAt <= now + 300000)

\* The expiry is exactly five minutes ahead, and a call refreshes.
C10_Witness ==
    /\ accessToken # "" /\ tokenExpiresAt = now + 300000
    /\ IsTokenExpired
    /\ \E p \in Handlers : pc[p] = "ev_wait" /\ tokReqs[p] = 1 /\ ~isRetry[p]

\* The expiry is one millisecond past the margin, and a call does not refresh.
C10_JustFresh ==
    /\ accessToken # "" /\ refreshToken # "" /\ tokenExpiresAt = now + 300001
    /\ ~IsTokenExpired
    /\ \E p \in Handlers : pc[p] = "send" /\ tokReqs[p] = 0

\* C11: setAccessToken(at, realm, rt, expiresIn) leaves the access token and
\* the realm id equal to its arguments, and whenever expiresIn is supplied, 0
\* included, the expiry is now plus expiresIn.
C11_Step ==
    \A at \in CallerAccessTokens, realm \in CallerRealms,
       rt \in {""} \cup CallerRefreshTokens, e \in ExpiresInArgs :
        SetCredentials(at, realm, rt, e) =>
            /\ accessToken' = at
            /\ realmId' = realm
            /\ (e # Omitted => tokenExpiresAt' = now + e * 1000)

\* C11 at every step.
C11_SetCredentialsOverwrites == [][C11_Step]_vars

\* C12: right after any setAccessToken by a caller the session is
\* authenticated and the token does not count as expired.
C12_Step ==
    \A at \in CallerAccessTokens, realm \in CallerRealms,
       rt \in {""} \cup CallerRefreshTokens, e \in ExpiresInArgs :
        SetCredentials(at, realm, rt, e) =>
            /\ GetTokenStatus'.isAuthenticated
            /\ ~IsTokenExpired'

\* C12 at every step.
C12_SetCredentialsFresh == [][C12_Step]_vars

\* C14: when the request of makeRequest fails with neither a 401 nor fault code
\* "3200", the invocation ends at once with that error: no retry, and no
\* request to the token endpoint after the failure.
C14_Inv ==
    \A p \in Handlers :
        (firstErr[p] # NoErr /\ firstErr[p].status # 401 /\ firstErr[p].code # "3200") =>
            /\ pc[p] = "done"
            /\ apiReqs[p] = 1 /\ ~isRetry[p]
            /\ tokFail[p].at # "retry"
            /\ result[p] = HandleApiError(firstErr[p])

C14_Step ==
    \A p \in Handlers :
        (pc[p] = "api_wait" /\ ~isRetry[p] /\ pc'[p] # "api_wait"
            /\ firstErr'[p].status # 401 /\ firstErr'[p].code # "3200") =>
                tokReqs'[p] = tokReqs[p]

\* C14: both parts, in every state and at every step.
C14_NonAuthFailureSurfaced == []C14_Inv /\ [][C14_Step]_vars

C14_Witness ==
    \E p \in Handlers :
        /\ pc[p] = "done" /\ firstErr[p].status = 500 /\ apiReqs[p] = 1
        /\ refreshToken # "" /\ result[p].kind = "api" /\ result[p].status = 500

\* C15: when the first attempt fails with an authentication failure and the
\* refresh after it fails, or there is no refresh token, the caller gets the
\* first attempt's error, status and fault code, after one resource request.
C15_OriginalFailureSurfaced ==
    \A p \in Handlers :
        (pc[p] = "done" /\ ~isRetry[p]
            /\ (firstErr[p].status = 401 \/ firstErr[p].code = "3200")
            /\ (tokFail[p].at = "retry" \/ refreshToken = "")) =>
                /\ result[p].kind = "api"
                /\ result[p].status = firstErr[p].status
                /\ result[p].code = firstErr[p].code
                /\ apiReqs[p] = 1

\* The refresh of the 401 branch failed and the caller got the 401.
C15_Witness ==
    \E p \in Handlers :
        /\ pc[p] = "done" /\ tokFail[p].at = "retry" /\ tokFail[p].status = 401
        /\ firstErr[p].code = "3200" /\ result[p].code = "3200"
        /\ result[p].status = 400

\* C16: a refresh that fails raises and leaves the four session fields as they
\* were, whether it was called directly, by ensureValidToken or by the 401
\* branch of makeRequest.
C16_Step ==
    \A p \in Handlers :
        (pc[p] \in {"rf_wait", "ev_wait", "rt_wait"} /\ pc'[p] = "done"
            /\ tokFail'[p].at # "") =>
                /\ result'[p].kind \in {"refresh_failed", "reauth", "api"}
                /\ accessToken' = accessToken
                /\ refreshToken' = refreshToken
                /\ realmId' = realmId
                /\ tokenExpiresAt' = tokenExpiresAt

\* C16 at every step.
C16_FailedRefreshKeepsSession == [][C16_Step]_vars

\* A direct refresh failed while the session held tokens from an exchange.
C16_Witness ==
    \E p \in Handlers :
        /\ pc[p] = "done" /\ tokFail[p].at = "refresh"
        /\ result[p].kind = "refresh_failed"
        /\ accessToken \in VendorAccessTokens /\ refreshToken \in VendorRefreshTokens
        /\ tokenExpiresAt # NoDate

\* C20: a refresh that succeeds with a response without a realm id leaves the
\* stored realm id as it was and returns it, and the access token it returns
\* is the one it stored.
C20_Step ==
    \A p \in Handlers : \A resp \in RefreshResponses :
        /\ (resp.realmId = ""
              /\ (EnsureRefreshOk(p, resp) \/ RetryRefreshOk(p, resp) \/ RefreshOk(p, resp))) =>
                 /\ realmId' = realmId
                 /\ accessToken' = resp.access_token
                 /\ issuedTok'[p] = accessToken'
        /\ (resp.realmId = "" /\ EnsureRefreshOk(p, resp)) =>
                 /\ tokResp'[p].realmId = realmId
                 /\ tokResp'[p].access_token = accessToken'

\* C20 at every step.
C20_RealmFallsBack == [][C20_Step]_vars

\* A direct refresh succeeded and the configured realm id is still stored.
C20_Witness ==
    \E p \in Handlers :
        /\ pc[p] = "done" /\ result[p] = Ok /\ tokReqs[p] = 1 /\ apiReqs[p] = 0
        /\ override[p] = ""
        /\ realmId \in CallerRealms
        /\ accessToken \in VendorAccessTokens /\ accessToken = issuedTok[p]

\* C13: what GET auth/status returns says authenticated exactly when an access
\* token and a realm id are both stored, and hasRefreshToken exactly when a
\* refresh token is stored; neither getTokenStatus nor isTokenExpired changes
\* a session field.
C13_Inv ==
    \A p \in Handlers :
        result[p].kind = "status" =>
            /\ statusOut[p].isAuthenticated <=> (accessToken # "" /\ realmId # "")
            /\ statusOut[p].hasRefreshToken <=> (refreshToken # "")
            /\ statusOut[p].realmId = realmId
            /\ statusOut[p].tokenExpiresAt = tokenExpiresAt

C13_Step ==
    \A p \in Handlers :
        /\ (pc[p] = "idle" /\ result'[p].kind = "status") =>
              (accessToken' = accessToken /\ refreshToken' = refreshToken
                  /\ realmId' = realmId /\ tokenExpiresAt' = tokenExpiresAt)
        /\ (pc[p] = "idle" /\ pc'[p] \in {"send", "ev_wait"}) =>
              (accessToken' = accessToken /\ refreshToken' = refreshToken
                  /\ realmId' = realmId /\ tokenExpiresAt' = tokenExpiresAt)

\* C13: both parts, in every state and at every step.
C13_StatusIsPureRead == []C13_Inv /\ [][C13_Step]_vars

\* The status of a session that holds an access token and a refresh token but
\* no realm id: not authenticated.
C13_Witness ==
    \E p \in Handlers :
        /\ result[p].kind = "status"
        /\ accessToken # "" /\ realmId = "" /\ refreshToken # ""
        /\ ~statusOut[p].isAuthenticated /\ statusOut[p].hasRefreshToken

\* C17: an operation that starts while no realm id is stored raises the
\* "authenticate first" error at once, before any request to the token endpoint
\* or the vendor API.
C17_Step ==
    \A p \in Handlers :
        (op[p] = "" /\ op'[p] # "" /\ realmId = "") =>
            /\ opResult'[p].kind = "auth_config"
            /\ phase'[p] = "end"
            /\ pc'[p] = "idle"
            /\ tokReqs'[p] = 0 /\ apiReqs'[p] = 0

\* C17 at every step.
C17_NoRealmRaisesAtOnce == [][C17_Step]_vars

\* C18: when the first request of a by-id operation succeeds, the operation
\* raises NotFound (404, not an upstream fault) if it returned no row, and
\* returns the first row otherwise, whatever became of the count request.
C18_Step ==
    \A p \in Handlers :
        (op[p] \in ByIdOps /\ phase[p] = "counting" /\ phase'[p] = "end") =>
            IF items[p] = <<>>
            THEN /\ opResult'[p].kind = "notfound"
                 /\ opResult'[p].status = 404
                 /\ opResult'[p].kind # "api"
            ELSE /\ opResult'[p].kind = "row"
                 /\ opResult'[p].items = <<Head(items[p])>>

\* C18 at every step.
C18_ByIdNotFound == [][C18_Step]_vars

\* getInvoiceById raised NotFound after two served requests without a row.
C18_Witness ==
    \E p \in Handlers :
        /\ op[p] = "getInvoiceById" /\ phase[p] = "end"
        /\ items[p] = <<>> /\ result[p].kind = "ok"
        /\ opResult[p].kind = "notfound" /\ opResult[p].status = 404

\* getItemById returned the first of two rows.
C18_WitnessRow ==
    \E p \in Handlers :
        /\ op[p] = "getItemById" /\ phase[p] = "end"
        /\ Len(items[p]) = 2
        /\ opResult[p].kind = "row" /\ opResult[p].items = <<"x1">>

\* C19: when the first request of executeQuery succeeds and the count request
\* fails, nothing is raised: the page holds the rows, and totalCount is their
\* number; a by-id operation goes on to look at the rows.
C19_Step ==
    \A p \in Handlers :
        (phase[p] = "counting" /\ phase'[p] = "end" /\ result[p].kind # "ok") =>
            IF op[p] \in ListOps
            THEN /\ opResult'[p].kind = "page"
                 /\ opResult'[p].items = items[p]
                 /\ opResult'[p].totalCount = Len(items[p])
            ELSE opResult'[p].kind \in {"row", "notfound"}

\* C19 at every step.
C19_CountFailureDegrades == [][C19_Step]_vars

\* getCustomers returned two rows and totalCount 2 after the count request
\* had failed with a 500.
C19_Witness ==
    \E p \in Handlers :
        /\ op[p] = "getCustomers" /\ phase[p] = "end"
        /\ result[p].kind = "api" /\ result[p].status = 500
        /\ Len(items[p]) = 2
        /\ opResult[p].kind = "page" /\ opResult[p].totalCount = 2
        /\ opResult[p].items = items[p]

\* C22: a code exchange that fails, whatever the vendor's status, raises the
\* "failed to exchange" error with status 400 and leaves the session fields as
\* they were.
C22_Step ==
    \A p \in Handlers :
        (pc[p] = "xc_wait" /\ pc'[p] = "done") =>
            /\ tokFail'[p].at = "exchange"
            /\ result'[p].kind = "exchange_failed"
            /\ result'[p].status = 400
            /\ accessToken' = accessToken /\ refreshToken' = refreshToken
            /\ realmId' = realmId /\ tokenExpiresAt' = tokenExpiresAt

\* C22 at every step.
C22_ExchangeFailureIsGeneric == [][C22_Step]_vars

\* The vendor answered an exchange with a 500 while the session held the
\* tokens of an earlier exchange.
C22_Witness ==
    \E p \in Handlers :
        /\ pc[p] = "done" /\ tokFail[p].at = "exchange" /\ tokFail[p].status = 500
        /\ result[p].kind = "exchange_failed" /\ result[p].status = 400
        /\ accessToken \in VendorAccessTokens /\ realmId # ""
        /\ tokenExpiresAt # NoDate

\* C30 as claimed: a stored refresh token is never cleared, and setAccessToken
\* without a refresh token leaves the refresh token and the expiry as they were.
C30_Original_Step ==
    /\ refreshToken # "" => refreshToken' # ""
    /\ \A at \in CallerAccessTokens, realm \in CallerRealms, e \in ExpiresInArgs :
          SetCredentials(at, realm, "", e) =>
              (refreshToken' = refreshToken /\ tokenExpiresAt' = tokenExpiresAt)

\* C30 as claimed, at every step.
C30_Original == [][C30_Original_Step]_vars

\* C30 as amended: a stored refresh token is never cleared; setAccessToken
\* without a refresh token leaves the refresh token as it was, and leaves the
\* expiry as it was when no expiresIn (or 0) is supplied either.
C30_Step ==
    /\ refreshToken # "" => refreshToken' # ""
    /\ \A at \in CallerAccessTokens, realm \in CallerRealms, e \in ExpiresInArgs :
          SetCredentials(at, realm, "", e) =>
              /\ refreshToken' = refreshToken
              /\ (e \in {Omitted, 0} => tokenExpiresAt' = tokenExpiresAt)

\* C30 as amended, at every step.
C30_RefreshTokenNeverCleared == [][C30_Step]_vars

\* A caller's access token replaced the vendor's; the rotated refresh token
\* and the expiry of the exchange are still stored.
C30_Witness ==
    /\ accessToken \in CallerAccessTokens
    /\ refreshToken \in VendorRefreshTokens
    /\ tokenExpiresAt # NoDate
    /\ GetTokenStatus.hasRefreshToken

\* C21: POST auth/set-tokens with an accepted body that names a refresh token
\* stores that refresh token and answers authenticated with hasRefreshToken;
\* POST auth/refresh with an accepted body calls refreshAccessToken with the
\* refresh token of the body.
C21_Step ==
    /\ \A p \in Handlers : \A body \in SetTokenBodies :
          (ValidSetTokenDto(body) /\ body.QUICKBOOKS_REFRESH_TOKEN # ""
              /\ SetTokens(p, body)) =>
                 /\ statusOut'[p].isAuthenticated
                 /\ statusOut'[p].hasRefreshToken
                 /\ refreshToken' = body.QUICKBOOKS_REFRESH_TOKEN
    /\ \A p \in Handlers : \A body \in RefreshTokenBodies :
          (ValidRefreshTokenDto(body) /\ RefreshEndpoint(p, body)) =>
                 rtArg'[p] = body.QUICKBOOKS_REFRESH_TOKEN

\* C21 at every step.
C21_DtoTokensReachService == [][C21_Step]_vars

\* C23: a stored expiry is the time at which the stored access token was set
\* plus the lifetime given with it, whatever setAccessToken calls, exchanges
\* and refreshes came before.
C23_ExpiryIsIssuancePlusLifetime ==
    tokenExpiresAt # NoDate =>
        /\ Truthy(issued.expiresIn)
        /\ tokenExpiresAt = issued.at + issued.expiresIn * 1000

\* C24: a retried request is sent only after the refresh of the 401 branch
\* succeeded and carries the access token that refresh returned; when that
\* refresh fails no further resource request is sent.
C24_Step ==
    \A p \in Handlers :
        /\ (isRetry[p] /\ Send(p)) =>
              (retryTok[p] # "" /\ sentTok'[p] = retryTok[p])
        /\ \A f \in TokenFailures :
              RetryRefreshFail(p, f) => (pc'[p] = "done" /\ apiReqs'[p] = apiReqs[p])

\* C24 at every step.
C24_RetryCarriesRefreshedToken == [][C24_Step]_vars

\* C29: a makeRequest call whose upstream requests are all answered ends,
\* having sent at most two resource requests and at most three requests to the
\* token endpoint.
C29_MakeRequestTerminates ==
    /\ [](\A p \in Handlers : apiReqs[p] <= 2 /\ tokReqs[p] <= 3)
    /\ \A p \in Handlers :
          (pc[p] \in {"ev_wait", "ev_set", "send", "api_wait", "rt_wait", "retry"})
              ~> (pc[p] = "done")

\* A call ended after two resource requests and three refreshes: one before
\* the first attempt, one after its 401, one before the retry.
C29_Witness ==
    \E p \in Handlers :
        /\ pc[p] = "done" /\ isRetry[p]
        /\ apiReqs[p] = 2 /\ tokReqs[p] = 3

\* C26: the session is shared by the requests in flight: a request accepted
\* with a Bearer token and a realm id installs its token in the session, and
\* every upstream request carries the access token the session holds when it is
\* sent, whichever request it is made for.
C26_Step ==
    \A p \in Handlers :
        /\ \A reqRealm \in {""} \cup CallerRealms, o \in BearerOps :
              (Accept(p, reqRealm, o) /\ InterceptorRealm(reqRealm) # "") =>
                  accessToken' = RequestBearer[p]
        /\ Send(p) => sentTok'[p] = accessToken

\* C26 at every step.
C26_NoRequestIsolation == [][C26_Step]_vars

\* Request A lists customers; while its first upstream request was awaited
\* request B was accepted, and the count request made for A went out with the
\* Bearer token of B.
C26_Witness ==
    /\ op["A"] = "getCustomers" /\ phase["A"] = "counting" /\ pc["A"] = "api_wait"
    /\ op["B"] # ""
    /\ sentTok["A"] = RequestBearer["B"]
    /\ RequestBearer["B"] # RequestBearer["A"]

\* C25: findOrCreateAccount returns the id of the account its search found and
\* posts no create then; it posts the create only after a search without rows;
\* when the create fails with the duplicate name fault 6240 it searches again,
\* and returns the id that search finds instead of raising.
C25_Step ==
    \A p \in Handlers :
        /\ \A rows \in RowSets :
              (phase[p] = "acct_search" /\ Len(rows) > 0 /\ AccountRows(p, rows)) =>
                  /\ itemCall'[p].resolved = rows[1]
                  /\ phase'[p] # "acct_create"
                  /\ AccountWritesSent(p)' = AccountWritesSent(p)
        /\ (phase[p] # "acct_create" /\ phase'[p] = "acct_create") =>
              (phase[p] = "acct_search" /\ AccountRows(p, <<>>))
        /\ (phase[p] = "acct_create" /\ result[p].code = "6240" /\ AccountFailed(p)) =>
              phase'[p] = "acct_retry"
        /\ \A rows \in RowSets :
              (phase[p] = "acct_retry" /\ Len(rows) > 0 /\ AccountRows(p, rows)) =>
                  (itemCall'[p].resolved = rows[1] /\ opResult'[p] = NoOpResult)

\* C25 at every step.
C25_FindOrCreateRecoversDuplicate == [][C25_Step]_vars

\* C27: when findItemByName found an item createItem raises the 409 conflict
\* DUPLICATE_ITEM_NAME and has sent no write; a write is sent only after the
\* lookup returned no row.
C27_Inv ==
    \A p \in Handlers :
        op[p] = "createItem" =>
            /\ (itemCall[p].looked /\ Len(items[p]) > 0
                    /\ phase[p] \notin {"lookup", "lookup_count"}) =>
                   /\ phase[p] = "end"
                   /\ opResult[p].kind = "conflict"
                   /\ opResult[p].status = 409
                   /\ opResult[p].code = "DUPLICATE_ITEM_NAME"
            /\ opResult[p].kind = "conflict" => WritesSent(p) = 0
            /\ WritesSent(p) > 0 => (itemCall[p].looked /\ Len(items[p]) = 0)

\* C27 at the step that decides: a found item ends the call with the conflict.
C27_Step ==
    \A p \in Handlers :
        (ItemCountDone(p) /\ Len(items[p]) > 0) =>
            (phase'[p] = "end" /\ opResult'[p] = DuplicateItemName)

C27_LookupBeforeCreate == []C27_Inv /\ [][C27_Step]_vars

\* createItem found an item of that name and raised the conflict.
C27_Witness ==
    \E p \in Handlers :
        /\ op[p] = "createItem" /\ phase[p] = "end"
        /\ itemCall[p].looked /\ Len(items[p]) > 0
        /\ opResult[p] = DuplicateItemName
        /\ ~FormatInvalid(itemData[p])

\* C28: when createItem has raised the 400 of a missing or empty account
\* reference, it has sent no write request.
C28_ValidationBeforeWrites ==
    \A p \in Handlers :
        (op[p] = "createItem" /\ phase[p] = "end" /\ opResult[p] = ValidationError400) =>
            WritesSent(p) = 0

====
